---- MODULE Spec2Model ----
(***************************************************************************)
(* cellmaps_coembedding: the embedding generators (runner.py), the         *)
(* orchestrator CellmapsCoEmbedder.run (runner.py) and the command-line    *)
(* entry point main (cellmaps_coembeddingcmd.py).                          *)
(*                                                                         *)
(* Four specifications share one set of variables:                         *)
(*   SpecCtor  EmbeddingGenerator.__init__ on every argument combination   *)
(*   SpecGen   a constructed generator's get_next_embedding(), consumed    *)
(*             with list(...) as the unit test does                        *)
(*   SpecRun   CellmapsCoEmbedder.run() driving a generator                *)
(*   SpecMain  main(args)                                                  *)
(***************************************************************************)
EXTENDS Integers, Sequences, FiniteSets, TLC

\* ------------------------------------------------------------------ bounds
MaxFiles == 3        \* most embedding files handed to a generator
MaxNames == 3        \* most embedding names handed to a generator
MaxRows == 4         \* most data rows over all the embedding tables of a run
MaxDim == 2          \* largest requested latent dimensionality
MaxJackHalves == 3   \* jackknife_percent ranges over 0, 1/2, ..., MaxJackHalves/2

None == "None"

\* Identifiers that occur in column 0 of the embedding tables.
Ids == {"gene1", "gene2"}

\* Python's string order on the identifiers (list.sort with key x[0]).
IdRank(id) == IF id = "gene1" THEN 1 ELSE 2

\* cellmaps_utils.constants, as named in main's description.
PPI_EMBEDDING_FILE == "ppi_emd.tsv"
IMAGE_EMBEDDING_FILE == "image_emd.tsv"

\* os.path.join of a directory and a file name.
PathJoin(dir, file) == dir \o "/" \o file

\* ---------------------------------------------------------------- variables
VARIABLES
    \* -- EmbeddingGenerator.__init__: the call's arguments and the file system
    args,                  \* [embedding_files, ppi_embeddingdir, image_embeddingdir, embedding_names]
    dirs,                  \* directory name -> set of file names in it
    cpc,                   \* "new" | "constructed" | "raised"
    ctorErr,               \* the exception __init__ raised, "none" if none
    ppi_embedding_file,    \* local of _get_embedding_files_and_names (line 63)
    image_embedding_file,  \* local of _get_embedding_files_and_names (line 64)
    _embedding_files,      \* self._embedding_files
    _embedding_names,      \* self._embedding_names
    \* -- the generator object and the frame of get_next_embedding
    kind,                  \* "muse" | "fake"
    _dimensions,           \* self._dimensions
    _jackknife_percent,    \* self._jackknife_percent, in halves
    gpc,                   \* position of the generator frame
    gactive,               \* a next() call on the generator is in progress
    gerr,                  \* the exception the generator raised, "none" if none
    embeddings,            \* the loaded and sorted tables (line 179-182)
    intersection_name_set, \* line 186
    name_index,            \* line 192
    embedding_data,        \* line 194-196
    test_subset,           \* line 200
    test_genes_file,       \* content of <outdir>/muse_test_genes.txt, None if absent
    fitCalled,             \* muse_fit_predict has been called
    res_embedings,         \* line 207
    index,                 \* enumerate cursor of line 217
    emitted,               \* the rows yielded so far
    \* -- CellmapsCoEmbedder.run
    rpc,                   \* position in run
    exitcode,              \* local exitcode
    exc,                   \* the exception in flight in run, "none" if none
    outdirExists,          \* os.path.isdir(self._outdir)
    _skip_logging,         \* self._skip_logging
    coembedding_file,      \* the output table on disk
    trace,                 \* calls made on the bookkeeping and provenance collaborators
    runResult,             \* what run() returned, or "raised"
    \* -- main
    margs,                 \* the parsed command line
    mpc,                   \* position in main
    mresult                \* what main returned, or "raised"

ctorVars == <<args, dirs, cpc, ctorErr, ppi_embedding_file, image_embedding_file,
              _embedding_files, _embedding_names>>
genVars == <<kind, _dimensions, _jackknife_percent, gpc, gactive, gerr, embeddings,
             intersection_name_set, name_index, embedding_data, test_subset,
             test_genes_file, fitCalled, res_embedings, index, emitted>>
runVars == <<rpc, exitcode, exc, outdirExists, _skip_logging, coembedding_file,
             trace, runResult>>
mainVars == <<margs, mpc, mresult>>
vars == <<ctorVars, genVars, runVars, mainVars>>

\* ================================================================ constructor
\* Mutant of GetEmbeddingFileFromDirs: the image file name is tried first.
GetEmbeddingFileFromDirsImageFirst(embedding_dir, content) ==
    IF IMAGE_EMBEDDING_FILE \in content
    THEN [ok |-> TRUE, path |-> PathJoin(embedding_dir, IMAGE_EMBEDDING_FILE)]
    ELSE IF PPI_EMBEDDING_FILE \in content
    THEN [ok |-> TRUE, path |-> PathJoin(embedding_dir, PPI_EMBEDDING_FILE)]
    ELSE [ok |-> FALSE, path |-> None]

\* EmbeddingGenerator._get_embedding_file_from_dirs: the path found in a
\* directory whose content is `content`, or the error raised.
GetEmbeddingFileFromDirs(embedding_dir, content) ==
    IF PPI_EMBEDDING_FILE \in content
    THEN [ok |-> TRUE, path |-> PathJoin(embedding_dir, PPI_EMBEDDING_FILE)]
    ELSE IF IMAGE_EMBEDDING_FILE \in content
    THEN [ok |-> TRUE, path |-> PathJoin(embedding_dir, IMAGE_EMBEDDING_FILE)]
    ELSE [ok |-> FALSE, path |-> None]

\* An optional list argument: None, or a list.
NoneList == [isNone |-> TRUE, items |-> <<>>]
List(s) == [isNone |-> FALSE, items |-> s]

\* Python truthiness of an optional list argument.
Truthy(v) == ~v.isNone /\ v.items # <<>>

\* names = ['emd_{}'.format(x) for x in np.arange(len(embedding_files))]
DefaultNames(n) == [i \in 1..n |-> "emd_" \o ToString(i - 1)]

\* EmbeddingGenerator._get_embedding_files_and_names, lines 54-77.  The result
\* records the exception raised ("none" if none), the returned pair and the two
\* locals the directory branch assigns.
GetEmbeddingFilesAndNames(embedding_files, ppi_embeddingdir, image_embeddingdir, embedding_names) ==
    LET fail(e, p, i) ==
            [err |-> e, embeddings |-> NoneList, names |-> NoneList,
             ppi |-> p, image |-> i]
        \* lines 72-77; len(None) raises TypeError
        check(embs, names, p, i) ==
            IF names.isNone /\ embedding_files.isNone THEN fail("TypeError", p, i)
            ELSE LET ns == IF names.isNone
                           THEN DefaultNames(Len(embedding_files.items))
                           ELSE names.items
                 IN IF embs.isNone THEN fail("TypeError", p, i)
                    ELSE IF Len(ns) # Len(embs.items)
                         THEN fail("NamesDoNotMatch", p, i)
                    ELSE [err |-> "none", embeddings |-> embs, names |-> List(ns),
                          ppi |-> p, image |-> i]
    IN IF ppi_embeddingdir # None \/ image_embeddingdir # None
       THEN IF Truthy(embedding_files) THEN fail("UseEitherNotBoth", None, None)
            \* os.path.join(None, ...) raises TypeError
            ELSE IF ppi_embeddingdir = None THEN fail("TypeError", None, None)
            ELSE LET p == GetEmbeddingFileFromDirs(ppi_embeddingdir,
                                                   dirs[ppi_embeddingdir])
                 IN IF ~p.ok THEN fail("EmbeddingFileNotFound", None, None)
                    ELSE IF image_embeddingdir = None
                         THEN fail("TypeError", p.path, None)
                    ELSE LET i == GetEmbeddingFileFromDirs(image_embeddingdir,
                                                           dirs[image_embeddingdir])
                         IN IF ~i.ok THEN fail("EmbeddingFileNotFound", p.path, None)
                            ELSE check(List(<<p.path, i.path>>),
                                       IF embedding_names.isNone
                                       THEN List(<<"PPI", "image">>) ELSE List(<<>>),
                                       p.path, i.path)
       ELSE check(embedding_files, embedding_names, None, None)

\* EmbeddingGenerator.__init__, lines 39-40.
Construct ==
    /\ cpc = "new"
    /\ LET r == GetEmbeddingFilesAndNames(args.embedding_files, args.ppi_embeddingdir,
                                          args.image_embeddingdir, args.embedding_names)
       IN /\ cpc' = IF r.err = "none" THEN "constructed" ELSE "raised"
          /\ ctorErr' = r.err
          /\ ppi_embedding_file' = r.ppi
          /\ image_embedding_file' = r.image
          /\ _embedding_files' = r.embeddings
          /\ _embedding_names' = r.names
    /\ UNCHANGED <<args, dirs, genVars, runVars, mainVars>>

\* ================================================================== generator
\* The text of a number in a table cell, and float(v) of it (line 196).
Cell(n) == [text |-> n]
PyFloat(v) == v.text

\* Modality m's vectors have m components.
NativeWidth(m) == m

\* The number of rows 1..k of `ids` that carry the identifier of row k.
Occurrence(ids, k) == Cardinality({j \in 1..k : ids[j] = ids[k]})

\* The component value of the occ-th row of identifier id in modality m's file.
VecTag(m, id, occ) == 100 * m + 10 * IdRank(id) + occ

\* EmbeddingGenerator._get_embeddings, lines 95-110: the data rows of modality
\* m's file, in file order, each the identifier followed by the cells.
GetEmbeddings(m, ids) ==
    [k \in 1..Len(ids) |->
        <<ids[k]>> \o [c \in 1..NativeWidth(m) |->
                          Cell(VecTag(m, ids[k], Occurrence(ids, k)))]]

\* list.sort(key=lambda x: x[0]), lines 182 and 249: a stable sort.
RECURSIVE SortById(_)
SortById(e) ==
    IF e = <<>> THEN <<>>
    ELSE LET last == e[Len(e)]
             rest == SortById(SubSeq(e, 1, Len(e) - 1))
             keep == SelectSeq(rest, LAMBDA x : IdRank(x[1]) <= IdRank(last[1]))
             after == SelectSeq(rest, LAMBDA x : IdRank(x[1]) > IdRank(last[1]))
         IN keep \o <<last>> \o after

\* EmbeddingGenerator._get_set_of_gene_names, lines 83-93.
GetSetOfGeneNames(embedding) == {embedding[i][1] : i \in DOMAIN embedding}

\* line 186: the intersection the generator computes.
IntersectionNameSet(embedding_name_sets) ==
    embedding_name_sets[1] \cap embedding_name_sets[2]

\* line 192: [x[0] for x in embeddings[0] if x[0] in intersection_name_set]
RECURSIVE NameIndex(_, _)
NameIndex(e, names) ==
    IF e = <<>> THEN <<>>
    ELSE (IF e[1][1] \in names THEN <<e[1][1]>> ELSE <<>>) \o NameIndex(Tail(e), names)

\* line 196: the float matrix of one modality.
RECURSIVE EmbeddingData(_, _)
EmbeddingData(e, names) ==
    IF e = <<>> THEN <<>>
    ELSE (IF e[1][1] \in names
          THEN <<[c \in 1..(Len(e[1]) - 1) |-> PyFloat(e[1][c + 1])]>>
          ELSE <<>>) \o EmbeddingData(Tail(e), names)

\* The identifier columns a file of at most t data rows may hold.
IdSeqs(t) == UNION {[1..n -> Ids] : n \in 0..t}

\* The identifier columns of n files that hold at most t data rows together.
RECURSIVE IdColumns(_, _)
IdColumns(n, t) ==
    IF n = 0 THEN {<<>>}
    ELSE UNION {{<<s>> \o rest : rest \in IdColumns(n - 1, t - Len(s))} :
                s \in IdSeqs(t)}

\* Mutant of SampleSize: the product is rounded up.
SampleSizeRoundedUp(percent_halves, n) == (percent_halves * n + 1) \div 2

\* line 200: int(self._jackknife_percent * len(name_index)), the fraction in halves.
SampleSize(percent_halves, n) == (percent_halves * n) \div 2

\* random.sample(list(np.arange(n)), k): the lists of k distinct indices.
Samples(n, k) ==
    {s \in [1..k -> 0..(n - 1)] : \A i, j \in 1..k : i # j => s[i] # s[j]}

\* muse.muse_fit_predict (cellmaps_coembedding/muse_sc): the training either
\* fails or returns one fused vector of latent_dim floats per entry of name_index.
MuseFitPredict(names, latent_dim) ==
    {[ok |-> FALSE, res |-> <<>>],
     [ok |-> TRUE, res |-> [i \in 1..Len(names) |-> [d \in 1..latent_dim |-> "float"]]]}

\* Mutant of YieldRow: the identifier is left out of the row.
YieldRowWithoutName(name, embedding) == embedding

\* lines 218-219: row = [name_index[index]]; row.extend(embedding)
YieldRow(name, embedding) == <<name>> \o embedding

\* The generator frame ends with exception e.
GenRaise(e) ==
    /\ gpc' = "raised"
    /\ gerr' = e
    /\ gactive' = FALSE

\* list(generator.get_next_embedding()): the consumer asks for the next row.
ListNext ==
    /\ rpc = "idle"
    /\ cpc = "constructed"
    /\ ~gactive
    /\ gpc \notin {"done", "raised"}
    /\ gactive' = TRUE
    /\ UNCHANGED <<ctorVars, kind, _dimensions, _jackknife_percent, gpc, gerr,
                   embeddings, intersection_name_set, name_index, embedding_data,
                   test_subset, test_genes_file, fitCalled, res_embedings, index,
                   emitted, runVars, mainVars>>

\* MuseCoEmbeddingGenerator.get_next_embedding, lines 179-196: load, sort,
\* intersect and align.  embedding_name_sets[1] of a single table, and
\* embedding_name_sets[0] of none, raise IndexError.
MuseAlign ==
    /\ gactive
    /\ kind = "muse"
    /\ gpc = "created"
    /\ \E ids \in IdColumns(Len(_embedding_files.items), MaxRows) :
         LET e == [m \in DOMAIN ids |-> SortById(GetEmbeddings(m, ids[m]))]
             embedding_name_sets == [m \in DOMAIN e |-> GetSetOfGeneNames(e[m])]
         IN /\ embeddings' = e
            /\ IF Len(e) < 2
               THEN /\ GenRaise("IndexError")
                    /\ UNCHANGED <<intersection_name_set, name_index, embedding_data>>
               ELSE LET names == IntersectionNameSet(embedding_name_sets)
                    IN /\ intersection_name_set' = names
                       /\ name_index' = NameIndex(e[1], names)
                       /\ embedding_data' =
                              [m \in DOMAIN e |-> EmbeddingData(e[m], names)]
                       /\ gpc' = "aligned"
                       /\ UNCHANGED <<gerr, gactive>>
    /\ UNCHANGED <<ctorVars, kind, _dimensions, _jackknife_percent, test_subset,
                   test_genes_file, fitCalled, res_embedings, index, emitted,
                   runVars, mainVars>>

\* Mutant of MuseHeldOut: the sample is drawn but the held-out file is left
\* to be written after training.
MuseHeldOutFileDeferred ==
    /\ gactive
    /\ kind = "muse"
    /\ gpc = "aligned"
    /\ LET n == Len(name_index)
           k == SampleSize(_jackknife_percent, n)
       IN IF k > n
          THEN /\ GenRaise("ValueError")
               /\ UNCHANGED <<test_subset, test_genes_file>>
          ELSE \E s \in Samples(n, k) :
                 /\ test_subset' = s
                 /\ gpc' = "sampled"
                 /\ UNCHANGED <<test_genes_file, gerr, gactive>>
    /\ UNCHANGED <<ctorVars, kind, _dimensions, _jackknife_percent, embeddings,
                   intersection_name_set, name_index, embedding_data, fitCalled,
                   res_embedings, index, emitted, runVars, mainVars>>

\* lines 198-203: sample the held-out indices and, for a positive fraction,
\* write them to <outdir>/muse_test_genes.txt.  random.sample raises ValueError
\* when asked for more indices than there are; open raises FileNotFoundError
\* when the directory is missing.
MuseHeldOut ==
    /\ gactive
    /\ kind = "muse"
    /\ gpc = "aligned"
    /\ LET n == Len(name_index)
           k == SampleSize(_jackknife_percent, n)
       IN IF k > n
          THEN /\ GenRaise("ValueError")
               /\ UNCHANGED <<test_subset, test_genes_file>>
          ELSE \E s \in Samples(n, k) :
                 /\ test_subset' = s
                 /\ IF _jackknife_percent > 0
                    THEN IF outdirExists
                         THEN /\ test_genes_file' =
                                     List([i \in 1..k |-> name_index[s[i] + 1]])
                              /\ gpc' = "sampled"
                              /\ UNCHANGED <<gerr, gactive>>
                         ELSE /\ GenRaise("FileNotFoundError")
                              /\ UNCHANGED test_genes_file
                    ELSE /\ gpc' = "sampled"
                         /\ UNCHANGED <<test_genes_file, gerr, gactive>>
    /\ UNCHANGED <<ctorVars, kind, _dimensions, _jackknife_percent, embeddings,
                   intersection_name_set, name_index, embedding_data, fitCalled,
                   res_embedings, index, emitted, runVars, mainVars>>

\* lines 205-216: the blocking training call.
MuseFit ==
    /\ gactive
    /\ kind = "muse"
    /\ gpc = "sampled"
    /\ fitCalled' = TRUE
    /\ \E r \in MuseFitPredict(name_index, _dimensions) :
         IF r.ok
         THEN /\ res_embedings' = r.res
              /\ gpc' = "fitted"
              /\ UNCHANGED <<gerr, gactive>>
         ELSE /\ GenRaise("TrainingError")
              /\ UNCHANGED res_embedings
    /\ UNCHANGED <<ctorVars, kind, _dimensions, _jackknife_percent, embeddings,
                   intersection_name_set, name_index, embedding_data, test_subset,
                   test_genes_file, index, emitted, runVars, mainVars>>

\* lines 217-220: yield the next row.
MuseYield ==
    /\ gactive
    /\ kind = "muse"
    /\ gpc = "fitted"
    /\ index < Len(res_embedings)
    /\ IF index < Len(name_index)
       THEN /\ emitted' = Append(emitted,
                                 YieldRow(name_index[index + 1], res_embedings[index + 1]))
            /\ index' = index + 1
            /\ gactive' = FALSE
            /\ UNCHANGED <<gpc, gerr>>
       ELSE /\ GenRaise("IndexError")
            /\ UNCHANGED <<emitted, index>>
    /\ UNCHANGED <<ctorVars, kind, _dimensions, _jackknife_percent, embeddings,
                   intersection_name_set, name_index, embedding_data, test_subset,
                   test_genes_file, fitCalled, res_embedings, runVars, mainVars>>

\* line 217: the loop over res_embedings is exhausted, the generator returns.
MuseStop ==
    /\ gactive
    /\ kind = "muse"
    /\ gpc = "fitted"
    /\ index = Len(res_embedings)
    /\ gpc' = "done"
    /\ gactive' = FALSE
    /\ UNCHANGED <<ctorVars, kind, _dimensions, _jackknife_percent, gerr, embeddings,
                   intersection_name_set, name_index, embedding_data, test_subset,
                   test_genes_file, fitCalled, res_embedings, index, emitted,
                   runVars, mainVars>>

\* FakeCoEmbeddingGenerator.get_next_embedding, line 246: the list display
\* [self._get_embeddings(x) in self._embedding_files] evaluates the unbound
\* name x, so the first next() raises NameError before any table is read.
FakeGetNextEmbedding ==
    /\ gactive
    /\ kind = "fake"
    /\ gpc = "created"
    /\ GenRaise("NameError")
    /\ UNCHANGED <<ctorVars, kind, _dimensions, _jackknife_percent, embeddings,
                   intersection_name_set, name_index, embedding_data, test_subset,
                   test_genes_file, fitCalled, res_embedings, index, emitted,
                   runVars, mainVars>>

GenStep ==
    \/ MuseAlign
    \/ MuseHeldOut
    \/ MuseFit
    \/ MuseYield
    \/ MuseStop
    \/ FakeGetNextEmbedding

\* ======================================================== CellmapsCoEmbedder
\* One call on the bookkeeping (logutils), provenance or file-system collaborators.
Call(name, ok) == [call |-> name, ok |-> ok]

\* The calls of the given name made so far.
Calls(name) == {i \in DOMAIN trace : trace[i].call = name}

\* Mutant of HeaderLine: one column label per component, 1..D.
HeaderLineUpToD(dimensions) == <<"">> \o [x \in 1..dimensions |-> x]

\* line 500-501: [''] followed by range(1, get_dimensions()).
HeaderLine(dimensions) == <<"">> \o [x \in 1..(dimensions - 1) |-> x]

\* Mutant of RunRaise: the exception leaves run without the finally block.
RunRaiseSkippingFinally(e) ==
    /\ exc' = e
    /\ rpc' = "done"

\* An exception inside the try block of run: control moves to the finally block.
RunRaise(e) ==
    /\ exc' = e
    /\ rpc' = "finally"

\* lines 478-484: exitcode = 99, then the output directory is created if absent.
RunMakeDirs ==
    /\ rpc = "start"
    /\ exitcode' = 99
    /\ IF outdirExists
       THEN /\ rpc' = "logging"
            /\ UNCHANGED <<exc, outdirExists, trace>>
       ELSE \E ok \in BOOLEAN :
              /\ trace' = Append(trace, Call("makedirs", ok))
              /\ outdirExists' = ok
              /\ IF ok THEN rpc' = "logging" /\ UNCHANGED exc
                 ELSE RunRaise("OSError")
    /\ UNCHANGED <<ctorVars, genVars, _skip_logging, coembedding_file, runResult,
                   mainVars>>

\* lines 486-488: the file logger is set up unless logging is skipped.
RunSetupLogging ==
    /\ rpc = "logging"
    /\ IF _skip_logging = FALSE
       THEN \E ok \in BOOLEAN :
              /\ trace' = Append(trace, Call("setup_filelogger", ok))
              /\ IF ok THEN rpc' = "taskstart" /\ UNCHANGED exc
                 ELSE RunRaise("LoggingError")
       ELSE /\ rpc' = "taskstart"
            /\ UNCHANGED <<exc, trace>>
    /\ UNCHANGED <<ctorVars, genVars, exitcode, outdirExists, _skip_logging,
                   coembedding_file, runResult, mainVars>>

\* lines 489-491 and _write_task_start_json, lines 364-378: the run-start
\* record.  self._inputdirs is a list, never None.
RunWriteTaskStart ==
    /\ rpc = "taskstart"
    /\ \E ok \in BOOLEAN :
         /\ trace' = Append(trace, Call("write_task_start_json", ok))
         /\ IF ok THEN rpc' = "provenance" /\ UNCHANGED exc
            ELSE RunRaise("OSError")
    /\ UNCHANGED <<ctorVars, genVars, exitcode, outdirExists, _skip_logging,
                   coembedding_file, runResult, mainVars>>

\* line 493 and _update_provenance_fields, lines 333-362: the provenance
\* attributes are merged from the input RO-Crates when there are any, and are
\* defaults otherwise.
RunUpdateProvenance ==
    /\ rpc = "provenance"
    /\ \/ /\ rpc' = "rocrate"
          /\ UNCHANGED <<exc, trace>>
       \/ \E ok \in BOOLEAN :
            /\ trace' = Append(trace, Call("get_merged_rocrate_provenance_attrs", ok))
            /\ IF ok THEN rpc' = "rocrate" /\ UNCHANGED exc
               ELSE RunRaise("ProvenanceError")
    /\ UNCHANGED <<ctorVars, genVars, exitcode, outdirExists, _skip_logging,
                   coembedding_file, runResult, mainVars>>

\* Mutant of RunCreateRocrate: a failed registration is logged and the run
\* goes on.
RunCreateRocrateFailureIgnored ==
    /\ rpc = "rocrate"
    /\ \E ok \in BOOLEAN :
         trace' = Append(trace, Call("register_rocrate", ok))
    /\ rpc' = "software"
    /\ UNCHANGED <<ctorVars, genVars, exitcode, exc, outdirExists, _skip_logging,
                   coembedding_file, runResult, mainVars>>

\* line 494 and _create_rocrate, lines 380-396.
RunCreateRocrate ==
    /\ rpc = "rocrate"
    /\ \E ok \in BOOLEAN :
         /\ trace' = Append(trace, Call("register_rocrate", ok))
         /\ IF ok THEN rpc' = "software" /\ UNCHANGED exc
            ELSE RunRaise("CellmapsCoEmbeddingError")
    /\ UNCHANGED <<ctorVars, genVars, exitcode, outdirExists, _skip_logging,
                   coembedding_file, runResult, mainVars>>

\* line 495 and _register_software, lines 398-415.
RunRegisterSoftware ==
    /\ rpc = "software"
    /\ \E ok \in BOOLEAN :
         /\ trace' = Append(trace, Call("register_software", ok))
         /\ IF ok THEN rpc' = "open" /\ UNCHANGED exc
            ELSE RunRaise("ProvenanceError")
    /\ UNCHANGED <<ctorVars, genVars, exitcode, outdirExists, _skip_logging,
                   coembedding_file, runResult, mainVars>>

\* lines 498-503: the output file is opened for writing, the header row is
\* written and the for loop asks the generator for its first row.
RunOpenOutput ==
    /\ rpc = "open"
    /\ \E ok \in BOOLEAN :
         /\ trace' = IF ok
                      THEN trace \o <<Call("open", TRUE), Call("get_next_embedding", TRUE)>>
                      ELSE Append(trace, Call("open", FALSE))
         /\ IF ok
            THEN /\ coembedding_file' =
                        [exists |-> TRUE, open |-> TRUE,
                         header |-> List(HeaderLine(_dimensions)), rows |-> <<>>]
                 /\ rpc' = "loop"
                 /\ gactive' = TRUE
                 /\ UNCHANGED exc
            ELSE /\ RunRaise("OSError")
                 /\ UNCHANGED <<coembedding_file, gactive>>
    /\ UNCHANGED <<ctorVars, kind, _dimensions, _jackknife_percent, gpc, gerr,
                   embeddings, intersection_name_set, name_index, embedding_data,
                   test_subset, test_genes_file, fitCalled, res_embedings, index,
                   emitted, exitcode, outdirExists, _skip_logging, runResult,
                   mainVars>>

\* Mutant of RunWriteRow: the row just yielded is dropped.
RunWriteRowDropped ==
    /\ rpc = "loop"
    /\ ~gactive
    /\ gpc = "fitted"
    /\ gactive' = TRUE
    /\ UNCHANGED <<ctorVars, kind, _dimensions, _jackknife_percent, gpc, gerr,
                   embeddings, intersection_name_set, name_index, embedding_data,
                   test_subset, test_genes_file, fitCalled, res_embedings, index,
                   emitted, runVars, mainVars>>

\* lines 503-504: the row just yielded is written and the next one asked for.
RunWriteRow ==
    /\ rpc = "loop"
    /\ ~gactive
    /\ gpc = "fitted"
    /\ coembedding_file' =
           [coembedding_file EXCEPT !.rows = Append(@, emitted[Len(emitted)])]
    /\ gactive' = TRUE
    /\ UNCHANGED <<ctorVars, kind, _dimensions, _jackknife_percent, gpc, gerr,
                   embeddings, intersection_name_set, name_index, embedding_data,
                   test_subset, test_genes_file, fitCalled, res_embedings, index,
                   emitted, rpc, exitcode, exc, outdirExists, _skip_logging, trace,
                   runResult, mainVars>>

\* Mutant of RunLoopEnd: the run goes on to the registrations inside the with
\* block, the output file still open.
RunLoopEndFileLeftOpen ==
    /\ rpc = "loop"
    /\ ~gactive
    /\ gpc = "done"
    /\ rpc' = "dataset"
    /\ UNCHANGED <<ctorVars, genVars, exitcode, exc, outdirExists, _skip_logging,
                   coembedding_file, trace, runResult, mainVars>>

\* lines 498-504: the generator is exhausted, the with block closes the file.
RunLoopEnd ==
    /\ rpc = "loop"
    /\ ~gactive
    /\ gpc = "done"
    /\ coembedding_file' = [coembedding_file EXCEPT !.open = FALSE]
    /\ rpc' = "dataset"
    /\ UNCHANGED <<ctorVars, genVars, exitcode, exc, outdirExists, _skip_logging,
                   trace, runResult, mainVars>>

\* Mutant of RunLoopRaise: the generator's exception is swallowed and the run
\* goes on to register the file.
RunLoopRaiseSwallowed ==
    /\ rpc = "loop"
    /\ ~gactive
    /\ gpc = "raised"
    /\ coembedding_file' = [coembedding_file EXCEPT !.open = FALSE]
    /\ rpc' = "dataset"
    /\ UNCHANGED <<ctorVars, genVars, exitcode, exc, outdirExists, _skip_logging,
                   trace, runResult, mainVars>>

\* lines 498-504: the generator raised; the with block closes the file, which
\* stays on disk, and the exception leaves the try block.
RunLoopRaise ==
    /\ rpc = "loop"
    /\ ~gactive
    /\ gpc = "raised"
    /\ coembedding_file' = [coembedding_file EXCEPT !.open = FALSE]
    /\ RunRaise(gerr)
    /\ UNCHANGED <<ctorVars, genVars, exitcode, outdirExists, _skip_logging,
                   trace, runResult, mainVars>>

\* line 506 and _register_image_coembedding_file, lines 442-461.
RunRegisterDataset ==
    /\ rpc = "dataset"
    /\ \E ok \in BOOLEAN :
         /\ trace' = Append(trace, Call("register_dataset", ok))
         /\ IF ok THEN rpc' = "computation" /\ UNCHANGED exc
            ELSE RunRaise("ProvenanceError")
    /\ UNCHANGED <<ctorVars, genVars, exitcode, outdirExists, _skip_logging,
                   coembedding_file, runResult, mainVars>>

\* Mutant of RunRegisterComputation: the exit code is set to 0 before the
\* registration is known to have succeeded.
RunRegisterComputationExitZeroFirst ==
    /\ rpc = "computation"
    /\ exitcode' = 0
    /\ \E ok \in BOOLEAN :
         /\ trace' = Append(trace, Call("register_computation", ok))
         /\ IF ok
            THEN /\ rpc' = "finally"
                 /\ UNCHANGED exc
            ELSE RunRaise("ProvenanceError")
    /\ UNCHANGED <<ctorVars, genVars, outdirExists, _skip_logging,
                   coembedding_file, runResult, mainVars>>

\* lines 508-510 and _register_computation, lines 417-440; then exitcode = 0.
RunRegisterComputation ==
    /\ rpc = "computation"
    /\ \E ok \in BOOLEAN :
         /\ trace' = Append(trace, Call("register_computation", ok))
         /\ IF ok
            THEN /\ exitcode' = 0
                 /\ rpc' = "finally"
                 /\ UNCHANGED exc
            ELSE /\ RunRaise("ProvenanceError")
                 /\ UNCHANGED exitcode
    /\ UNCHANGED <<ctorVars, genVars, outdirExists, _skip_logging,
                   coembedding_file, runResult, mainVars>>

\* lines 511-519: the finally block writes the run-finish record with the exit
\* code; run then returns the exit code, or the exception in flight (or the one
\* the finish record raised) propagates.
RunFinally ==
    /\ rpc = "finally"
    /\ \E ok \in BOOLEAN :
         /\ trace' = Append(trace, Call("write_task_finish_json", ok))
         /\ exc' = IF ok THEN exc ELSE "OSError"
         /\ runResult' = IF ok /\ exc = "none" THEN "returned" ELSE "raised"
    /\ rpc' = "done"
    /\ UNCHANGED <<ctorVars, genVars, exitcode, outdirExists, _skip_logging,
                   coembedding_file, mainVars>>

RunStep ==
    \/ RunMakeDirs
    \/ RunSetupLogging
    \/ RunWriteTaskStart
    \/ RunUpdateProvenance
    \/ RunCreateRocrate
    \/ RunRegisterSoftware
    \/ RunOpenOutput
    \/ RunWriteRow
    \/ RunLoopEnd
    \/ RunLoopRaise
    \/ RunRegisterDataset
    \/ RunRegisterComputation
    \/ RunFinally

\* ======================================================================= main
\* main ends: it returns a value, or an exception propagates to the caller.
MainReturn(value, e) == [how |-> "returned", value |-> value, err |-> e]
MainPropagate(e) == [how |-> "raised", value |-> -1, err |-> e]

\* Mutant of MainValidate: the check that inputs were given at all is left
\* out.
MainValidateWithoutRequired ==
    /\ mpc = "start"
    /\ LET dirsGiven == margs.ppi_embeddingdir # None \/ margs.image_embeddingdir # None
           files == Truthy(margs.embeddings)
       IN IF dirsGiven /\ files
          THEN /\ mpc' = "ended"
               /\ mresult' = MainPropagate("UseEitherNotBoth")
          ELSE IF files /\ Len(margs.embeddings.items) > 2 /\ margs.algorithm = "muse"
          THEN /\ mpc' = "ended"
               /\ mresult' = MainPropagate("OnlyTwoEmbeddings")
          ELSE /\ mpc' = "logging"
               /\ UNCHANGED mresult
    /\ UNCHANGED <<ctorVars, genVars, runVars, margs>>

\* lines 130-139: the checks on the input selection, made before the try block.
MainValidate ==
    /\ mpc = "start"
    /\ LET dirsGiven == margs.ppi_embeddingdir # None \/ margs.image_embeddingdir # None
           bothDirs == margs.ppi_embeddingdir # None /\ margs.image_embeddingdir # None
           files == Truthy(margs.embeddings)
       IN IF dirsGiven /\ files
          THEN /\ mpc' = "ended"
               /\ mresult' = MainPropagate("UseEitherNotBoth")
          ELSE IF files /\ Len(margs.embeddings.items) > 2 /\ margs.algorithm = "muse"
          THEN /\ mpc' = "ended"
               /\ mresult' = MainPropagate("OnlyTwoEmbeddings")
          ELSE IF ~bothDirs /\ ~files
          THEN /\ mpc' = "ended"
               /\ mresult' = MainPropagate("InputsRequired")
          ELSE /\ mpc' = "logging"
               /\ UNCHANGED mresult
    /\ UNCHANGED <<ctorVars, genVars, runVars, margs>>

\* lines 141-142 and 179-183: logutils.setup_cmd_logging inside the try block.
MainSetupLogging ==
    /\ mpc = "logging"
    /\ \/ /\ mpc' = "construct"
          /\ UNCHANGED mresult
       \/ /\ mpc' = "ended"
          /\ mresult' = MainReturn(2, "LoggingError")
    /\ UNCHANGED <<ctorVars, genVars, runVars, margs>>

\* lines 143-148: FakeCoEmbeddingGenerator.__init__ (runner.py 228-229) has no
\* parameter named embeddings: the call raises TypeError, caught at line 179.
MainConstructFake ==
    /\ mpc = "construct"
    /\ margs.fake_embedding
    /\ mpc' = "ended"
    /\ mresult' = MainReturn(2, "TypeError")
    /\ UNCHANGED <<ctorVars, genVars, runVars, margs>>

\* lines 150-159: MuseCoEmbeddingGenerator.__init__ (runner.py 138-147) has no
\* parameter named embeddings: the call raises TypeError, caught at line 179.
MainConstructMuse ==
    /\ mpc = "construct"
    /\ ~margs.fake_embedding
    /\ margs.algorithm = "muse"
    /\ mpc' = "ended"
    /\ mresult' = MainReturn(2, "TypeError")
    /\ UNCHANGED <<ctorVars, genVars, runVars, margs>>

\* lines 160-168: AutoCoEmbeddingGenerator is built; the call returns a
\* generator or raises.
MainConstructAuto ==
    /\ mpc = "construct"
    /\ ~margs.fake_embedding
    /\ margs.algorithm = "auto"
    /\ \/ /\ mpc' = "inputdirs"
          /\ UNCHANGED mresult
       \/ /\ mpc' = "ended"
          /\ mresult' = MainReturn(2, "CellmapsCoEmbeddingError")
    /\ UNCHANGED <<ctorVars, genVars, runVars, margs>>

\* line 170: gen.get_embedding_inputdirs() returns or raises.
MainGetInputDirs ==
    /\ mpc = "inputdirs"
    /\ \/ /\ mpc' = "embedder"
          /\ UNCHANGED mresult
       \/ /\ mpc' = "ended"
          /\ mresult' = MainReturn(2, "AttributeError")
    /\ UNCHANGED <<ctorVars, genVars, runVars, margs>>

\* lines 171-178: CellmapsCoEmbedder.__init__ (runner.py 270-277) has no
\* parameter named inputdirs: the call raises TypeError before run() is
\* reached, caught at line 179.
MainConstructEmbedder ==
    /\ mpc = "embedder"
    /\ mpc' = "ended"
    /\ mresult' = MainReturn(2, "TypeError")
    /\ UNCHANGED <<ctorVars, genVars, runVars, margs>>

MainStep ==
    \/ MainValidate
    \/ MainSetupLogging
    \/ MainConstructFake
    \/ MainConstructMuse
    \/ MainConstructAuto
    \/ MainGetInputDirs
    \/ MainConstructEmbedder

\* ============================================================= initial states
FileList(n) == [i \in 1..n |-> "file" \o ToString(i)]
NameList(n) == [i \in 1..n |-> "name" \o ToString(i)]

DirNames == {"ppidir", "imagedir"}
FileNames == {PPI_EMBEDDING_FILE, IMAGE_EMBEDDING_FILE, "readme.txt"}

NoArgs == [embedding_files |-> NoneList, ppi_embeddingdir |-> None,
           image_embeddingdir |-> None, embedding_names |-> NoneList]

CtorNew ==
    /\ cpc = "new"
    /\ ctorErr = "none"
    /\ ppi_embedding_file = None
    /\ image_embedding_file = None
    /\ _embedding_files = NoneList
    /\ _embedding_names = NoneList

\* A generator built with embedding_files = n paths and no names.
CtorDone(n) ==
    /\ args = [NoArgs EXCEPT !.embedding_files = List(FileList(n))]
    /\ dirs = [d \in DirNames |-> {}]
    /\ cpc = "constructed"
    /\ ctorErr = "none"
    /\ ppi_embedding_file = None
    /\ image_embedding_file = None
    /\ _embedding_files = List(FileList(n))
    /\ _embedding_names = List(DefaultNames(n))

GenFrameNew ==
    /\ gpc = "created"
    /\ gactive = FALSE
    /\ gerr = "none"
    /\ embeddings = <<>>
    /\ intersection_name_set = {}
    /\ name_index = <<>>
    /\ embedding_data = <<>>
    /\ test_subset = <<>>
    /\ test_genes_file = NoneList
    /\ fitCalled = FALSE
    /\ res_embedings = <<>>
    /\ index = 0
    /\ emitted = <<>>

GenIdle ==
    /\ kind = "muse"
    /\ _dimensions = 1
    /\ _jackknife_percent = 0
    /\ GenFrameNew

RunIdle ==
    /\ rpc = "idle"
    /\ exitcode = 99
    /\ exc = "none"
    /\ _skip_logging = TRUE
    /\ coembedding_file = [exists |-> FALSE, open |-> FALSE, header |-> NoneList,
                           rows |-> <<>>]
    /\ trace = <<>>
    /\ runResult = "none"

MainIdle ==
    /\ margs = [ppi_embeddingdir |-> None, image_embeddingdir |-> None,
                embeddings |-> NoneList, algorithm |-> "auto",
                fake_embedding |-> FALSE]
    /\ mpc = "idle"
    /\ mresult = [how |-> "none", value |-> -1, err |-> "none"]

\* ----------------------------------------------------------------- SpecCtor
InitCtor ==
    /\ args \in [embedding_files :
                    {NoneList} \cup {List(FileList(n)) : n \in 0..MaxFiles},
                 ppi_embeddingdir : {None, "ppidir"},
                 image_embeddingdir : {None, "imagedir"},
                 embedding_names :
                    {NoneList} \cup {List(NameList(n)) : n \in 0..MaxNames}]
    /\ dirs \in [DirNames -> SUBSET FileNames]
    /\ CtorNew
    /\ GenIdle
    /\ outdirExists = TRUE
    /\ RunIdle
    /\ MainIdle

NextCtor == Construct

SpecCtor == InitCtor /\ [][NextCtor]_vars

\* ------------------------------------------------------------------ SpecGen
InitGen ==
    /\ \E n \in 0..MaxFiles : CtorDone(n)
    /\ kind \in {"muse", "fake"}
    /\ _dimensions \in 1..MaxDim
    /\ _jackknife_percent \in 0..MaxJackHalves
    /\ kind = "fake" => _jackknife_percent = 0
    /\ GenFrameNew
    /\ outdirExists \in BOOLEAN
    /\ ~outdirExists => _dimensions = 1
    /\ RunIdle
    /\ MainIdle

NextGen ==
    \/ ListNext
    \/ GenStep

SpecGen == InitGen /\ [][NextGen]_vars

\* ------------------------------------------------------------------ SpecRun
\* run() of an embedder whose generator was built on two embedding files.
InitRun ==
    /\ CtorDone(2)
    /\ kind \in {"muse", "fake"}
    /\ _dimensions \in 1..MaxDim
    /\ _jackknife_percent \in 0..MaxJackHalves
    /\ kind = "fake" => _jackknife_percent = 0
    /\ GenFrameNew
    /\ outdirExists \in BOOLEAN
    /\ rpc = "start"
    /\ exitcode = 99
    /\ exc = "none"
    /\ _skip_logging \in BOOLEAN
    /\ coembedding_file = [exists |-> FALSE, open |-> FALSE, header |-> NoneList,
                           rows |-> <<>>]
    /\ trace = <<>>
    /\ runResult = "none"
    /\ MainIdle

NextRun ==
    \/ RunStep
    \/ GenStep

SpecRun == InitRun /\ [][NextRun]_vars

\* ----------------------------------------------------------------- SpecMain
InitMain ==
    /\ args = NoArgs
    /\ dirs = [d \in DirNames |-> {}]
    /\ CtorNew
    /\ GenIdle
    /\ outdirExists = FALSE
    /\ RunIdle
    /\ margs \in [ppi_embeddingdir : {None, "ppidir"},
                  image_embeddingdir : {None, "imagedir"},
                  embeddings : {NoneList} \cup {List(FileList(n)) : n \in 1..MaxFiles},
                  algorithm : {"auto", "muse"},
                  fake_embedding : BOOLEAN]
    /\ mpc = "start"
    /\ mresult = [how |-> "none", value |-> -1, err |-> "none"]

NextMain == MainStep

SpecMain == InitMain /\ [][NextMain]_vars

\* =================================================================== claims
\* ---------------------------------------------------------------- generator
\* The generator has loaded at least two tables and aligned them.
Aligned == kind = "muse" /\ Len(embeddings) >= 2

\* The identifiers of loaded table m.
TableIds(m) == {embeddings[m][k][1] : k \in DOMAIN embeddings[m]}

\* The identifiers of the rows emitted so far.
EmittedIds == {emitted[i][1] : i \in DOMAIN emitted}

\* The held-out step of lines 198-203 has run (to its end or to an exception).
HeldOutStepOver ==
    /\ Aligned
    /\ \/ gpc \in {"sampled", "fitted", "done"}
       \/ gpc = "raised" /\ gerr \in {"ValueError", "FileNotFoundError", "TrainingError"}

\* C1: for N >= 2 modalities the aligned identifier set is the intersection of
\* the identifier sets of all N modalities: an identifier is aligned if and only
\* if every modality's table has it.
C1_AlignedSetIsIntersectionOfAll ==
    Aligned =>
        intersection_name_set =
            {id \in Ids : \A m \in DOMAIN embeddings : id \in TableIds(m)}

\* C2: the emitted rows hold each identifier of the aligned set exactly once and
\* no other identifier; the number of rows is the cardinality of the aligned set.
C2_EachAlignedIdEmittedOnce ==
    kind = "muse" /\ gpc = "done" =>
        /\ EmittedIds = intersection_name_set
        /\ Len(emitted) = Cardinality(intersection_name_set)

\* C3: every emitted row has length D + 1, the identifier followed by D
\* components, whatever the width of the input tables.
C3_RowLengthIsDimensionsPlusOne ==
    \A i \in DOMAIN emitted : Len(emitted[i]) = _dimensions + 1

\* C3 witness: a row has been emitted from tables whose widths differ from D.
C3_Witness ==
    /\ emitted # <<>>
    /\ \A m \in DOMAIN embeddings : embeddings[m] # <<>>
    /\ \E m \in DOMAIN embeddings : Len(embeddings[m][1]) - 1 # _dimensions
    /\ \E m \in DOMAIN embeddings : Len(embeddings[m][1]) - 1 = _dimensions

\* C6: on two modalities the fake generator completes without error and emits
\* one row per identifier of their intersection, the identifier and D values.
C6_FakeEmitsOneRowPerSharedId ==
    kind = "fake" /\ Len(_embedding_files.items) = 2 /\ gpc \in {"done", "raised"} =>
        /\ gpc = "done"
        /\ gerr = "none"
        /\ EmittedIds = TableIds(1) \cap TableIds(2)
        /\ Len(emitted) = Cardinality(EmittedIds)
        /\ \A i \in DOMAIN emitted : Len(emitted[i]) = _dimensions + 1

\* The indices of test_subset are distinct indices of name_index.
DistinctIndices ==
    /\ \A i \in DOMAIN test_subset : test_subset[i] \in 0..(Len(name_index) - 1)
    /\ \A i, j \in DOMAIN test_subset : i # j => test_subset[i] # test_subset[j]

DirMode ==
    /\ args.ppi_embeddingdir # None
    /\ args.image_embeddingdir # None
    /\ ~Truthy(args.embedding_files)

\* The call selects explicit files (and no directory).
FileMode ==
    /\ args.ppi_embeddingdir = None
    /\ args.image_embeddingdir = None
    /\ ~args.embedding_files.isNone

\* The number of embedding files of the call.
FileCount == IF DirMode THEN 2 ELSE Len(args.embedding_files.items)

\* C4: a names list whose length differs from the number of files always makes
\* the constructor fail; a names list of the same length as the file list, in
\* either input-selection mode, is not rejected by the count check.
C4_NameCountCheck ==
    cpc # "new" /\ ~args.embedding_names.isNone /\ (DirMode \/ FileMode) =>
        /\ Len(args.embedding_names.items) # FileCount => cpc = "raised"
        /\ Len(args.embedding_names.items) = FileCount => ctorErr # "NamesDoNotMatch"

\* The constructor has searched the PPI directory, and the image directory.
PpiDirSearched ==
    /\ cpc # "new"
    /\ args.ppi_embeddingdir # None
    /\ ~Truthy(args.embedding_files)
ImageDirSearched ==
    /\ PpiDirSearched
    /\ ppi_embedding_file # None
    /\ args.image_embeddingdir # None

\* What discovery must give for a directory of the given content.
Discovered(dir, found) ==
    LET content == dirs[dir]
    IN /\ found # None <=> content \cap {"ppi_emd.tsv", "image_emd.tsv"} # {}
       /\ "ppi_emd.tsv" \in content => found = dir \o "/ppi_emd.tsv"
       /\ "ppi_emd.tsv" \notin content /\ "image_emd.tsv" \in content =>
              found = dir \o "/image_emd.tsv"
       /\ found = None => cpc = "raised" /\ ctorErr = "EmbeddingFileNotFound"

RunEnded == rpc = "done"

\* The first call of the given name comes before the first of the other.
Before(first, second) ==
    \A i \in Calls(first), j \in Calls(second) : i < j

\* Directory creation and logging setup did not fail.
SetupSucceeded ==
    \A i \in DOMAIN trace :
        trace[i].call \in {"makedirs", "setup_filelogger"} => trace[i].ok

\* C8 as claimed: in every execution of run, whichever step fails or none, the
\* run-start record is written exactly once and the run-finish record exactly
\* once, the start record first.
C8_StartAndFinishExactlyOnce ==
    RunEnded =>
        /\ Cardinality(Calls("write_task_start_json")) = 1
        /\ Cardinality(Calls("write_task_finish_json")) = 1
        /\ Before("write_task_start_json", "write_task_finish_json")

\* C8 amended: in every execution of run the run-finish record is attempted
\* exactly once, as the last call; the run-start record is attempted at most
\* once and before it, and exactly once if and only if directory creation and
\* logging setup did not fail.
C8_FinishOnceStartAtMostOnce ==
    /\ Cardinality(Calls("write_task_start_json")) <= 1
    /\ Cardinality(Calls("write_task_finish_json")) <= 1
    /\ Before("write_task_start_json", "write_task_finish_json")
    /\ RunEnded =>
        /\ Cardinality(Calls("write_task_finish_json")) = 1
        /\ trace[Len(trace)].call = "write_task_finish_json"
        /\ Cardinality(Calls("write_task_start_json")) = 1 <=> SetupSucceeded

\* C8 witness: a run in which a later step failed has ended with one start
\* record and one finish record.
C8_Witness ==
    /\ RunEnded
    /\ \E i \in Calls("register_software") : ~trace[i].ok
    /\ Cardinality(Calls("write_task_start_json")) = 1
    /\ Cardinality(Calls("write_task_finish_json")) = 1

\* The output file holds the header and every row of a completed sequence.
OutputComplete ==
    /\ coembedding_file.exists
    /\ gpc = "done"
    /\ coembedding_file.rows = emitted

\* C10 as claimed: if the generator raises, before its first row or partway,
\* the run ends with the output file absent or complete, never holding only a
\* header or a prefix of the rows.
C10_NoPartialOutputTable ==
    RunEnded /\ gerr # "none" => ~coembedding_file.exists \/ OutputComplete

\* C10 amended: if the generator raises, the run ends with the output file left
\* on disk, closed, holding the header and the rows yielded before the error;
\* the file is never registered as a dataset and the finish record carries
\* status 99.
C10_PartialTableLeftUnregistered ==
    rpc \in {"finally", "done"} /\ gerr # "none" =>
        /\ coembedding_file.exists
        /\ ~coembedding_file.open
        /\ coembedding_file.header = List(<<"">> \o [x \in 1..(_dimensions - 1) |-> x])
        /\ coembedding_file.rows = emitted
        /\ Calls("register_dataset") = {}
        /\ Calls("register_computation") = {}
        /\ exitcode = 99
        /\ runResult # "returned"

\* C10 witness: the training call failed and the run has ended.
C10_Witness ==
    /\ RunEnded
    /\ gerr = "TrainingError"
    /\ fitCalled
    /\ coembedding_file.exists
    /\ coembedding_file.rows = <<>>

\* --------------------------------------------------------------------- main
\* C9: every exception raised anywhere in main is caught at the top level, a
\* run-finish record with a failure status is attempted, and main returns 2
\* instead of propagating.
C9_MainCatchesEveryException ==
    mpc = "ended" /\ mresult.err # "none" =>
        /\ mresult.how = "returned"
        /\ mresult.value = 2
        /\ Calls("write_task_finish_json") # {}

\* The input selection, at either of its two entry points: a call of the
\* generator constructor, or an invocation of main.
InitSelect == InitCtor \/ InitMain

NextSelect ==
    \/ NextCtor
    \/ NextMain

SpecSelect == InitSelect /\ [][NextSelect]_vars

\* ---------------------------------------------------------------- C11 - C19
\* The rows written to the output file are the rows yielded, in yield order,
\* but for the one the loop body has still to write.
RowsFollowYields ==
    /\ Len(coembedding_file.rows) <= Len(emitted)
    /\ Len(emitted) - Len(coembedding_file.rows) <= 1
    /\ \A i \in DOMAIN coembedding_file.rows : coembedding_file.rows[i] = emitted[i]

\* The row sequence has been consumed to its end and every row is written.
SequenceConsumed ==
    /\ Cardinality(Calls("get_next_embedding")) = 1
    /\ gpc = "done"
    /\ coembedding_file.rows = emitted

\* C11 as claimed: in every run the generator's row sequence is obtained
\* exactly once and consumed to exhaustion exactly once, every row written.
C11_EveryRunExhaustsTheSequence ==
    RunEnded => SequenceConsumed

\* C11 amended: in every run the row sequence is obtained at most once, each
\* yielded row is written exactly once in yield order, and the output table is
\* registered as a dataset, and the exit status is 0, only after the sequence
\* was obtained once, consumed to exhaustion and every row written; a run that
\* returns has done so.
C11_ValidOnlyAfterSequenceConsumed ==
    /\ Cardinality(Calls("get_next_embedding")) <= 1
    /\ RowsFollowYields
    /\ Calls("register_dataset") # {} \/ exitcode = 0 =>
           SequenceConsumed /\ ~coembedding_file.open
    /\ runResult = "returned" => SequenceConsumed /\ exitcode = 0

\* C11 witness: a run that wrote two rows has returned with status 0.
C11_Witness ==
    /\ RunEnded
    /\ runResult = "returned"
    /\ exitcode = 0
    /\ Len(coembedding_file.rows) >= 2

\* The aligned identifier set cannot support training: it is empty, or the
\* held-out sample asked of it is larger than the set itself.
AlignedSetTooSmall ==
    /\ Aligned
    /\ gpc # "created"
    /\ \/ name_index = <<>>
       \/ SampleSize(_jackknife_percent, Len(name_index)) > Len(name_index)

\* C12: when the aligned identifier set is too small (an empty intersection,
\* say), the real fitter reports a training-data error before the training
\* call, which is never made, and emits no rows.
C12_TooSmallAlignedSetReported ==
    AlignedSetTooSmall =>
        /\ ~fitCalled
        /\ emitted = <<>>
        /\ HeldOutStepOver => gpc = "raised" /\ gerr = "TrainingDataError"

\* C13: for every D >= 1 the header line of the output table is an empty
\* first cell followed by the integers 1..D-1 (D cells), each data row is an
\* identifier followed by D components (D+1 cells), and the header is in the
\* file, written once, before any data row.
C13_HeaderOneCellShorterThanRows ==
    /\ ~coembedding_file.exists =>
           coembedding_file.header.isNone /\ coembedding_file.rows = <<>>
    /\ coembedding_file.exists =>
           LET header == coembedding_file.header.items
           IN /\ ~coembedding_file.header.isNone
              /\ Len(header) = _dimensions
              /\ header[1] = ""
              /\ \A x \in 1..(_dimensions - 1) : header[x + 1] = x
              /\ \A i \in DOMAIN coembedding_file.rows :
                     /\ Len(coembedding_file.rows[i]) = _dimensions + 1
                     /\ coembedding_file.rows[i][1] \in Ids
                     /\ Len(coembedding_file.rows[i]) = Len(header) + 1

\* C13 witness: a file of dimension 2 or more holds its header and a data row.
C13_Witness ==
    /\ coembedding_file.exists
    /\ _dimensions >= 2
    /\ coembedding_file.rows # <<>>
    /\ Len(coembedding_file.header.items) = _dimensions

\* The finally block of run has been entered.
FinallyEntered == rpc \in {"finally", "done"}

\* Every step of the try block of run completed without an exception: each
\* call made succeeded, the rows were all written, and the last step, the
\* registration of the computation, was reached.
EveryStepCompleted ==
    /\ \A i \in DOMAIN trace :
           trace[i].call # "write_task_finish_json" => trace[i].ok
    /\ Calls("write_task_start_json") # {}
    /\ Calls("register_rocrate") # {}
    /\ Calls("register_software") # {}
    /\ SequenceConsumed
    /\ Calls("register_dataset") # {}
    /\ Calls("register_computation") # {}

\* C14: the status handed to the run-finish record is 0 if and only if every
\* step of run completed without an exception and is 99 in every other
\* execution; run returns normally only with the value 0.
C14_FinishStatusZeroIffEveryStepCompleted ==
    /\ exitcode \in {0, 99}
    /\ FinallyEntered => (exitcode = 0 <=> EveryStepCompleted)
    /\ rpc = "finally" => (exitcode = 0 <=> exc = "none")
    /\ runResult = "returned" => exitcode = 0 /\ EveryStepCompleted

\* C14 witness: one run whose dataset registration failed has written its
\* finish record with status 99 and raised.
C14_Witness ==
    /\ RunEnded
    /\ exitcode = 99
    /\ runResult = "raised"
    /\ \E i \in Calls("register_dataset") : ~trace[i].ok
    /\ trace[Len(trace)] = Call("write_task_finish_json", TRUE)

\* The provenance registration calls of run.
RegistrationCalls ==
    {"register_rocrate", "register_software", "register_dataset",
     "register_computation"}

\* The place of each call in the order the claim gives: directory, start
\* record, table, registrations, finish record.
ClaimedRank(call) ==
    CASE call \in {"makedirs", "setup_filelogger"} -> 1
      [] call = "write_task_start_json" -> 2
      [] call \in {"open", "get_next_embedding"} -> 3
      [] call \in RegistrationCalls \cup {"get_merged_rocrate_provenance_attrs"} -> 4
      [] call = "write_task_finish_json" -> 5

\* The place of each call in the order of the try block of run.
CodeRank(call) ==
    CASE call = "makedirs" -> 1
      [] call = "setup_filelogger" -> 2
      [] call = "write_task_start_json" -> 3
      [] call = "get_merged_rocrate_provenance_attrs" -> 4
      [] call = "register_rocrate" -> 5
      [] call = "register_software" -> 6
      [] call = "open" -> 7
      [] call = "get_next_embedding" -> 8
      [] call = "register_dataset" -> 9
      [] call = "register_computation" -> 10
      [] call = "write_task_finish_json" -> 11

\* C15 as claimed: the steps of run come in the order directory, start record,
\* table written, provenance registrations, finish record; no provenance
\* registration call precedes the writing of the output table.
C15_NoRegistrationBeforeTable ==
    /\ \A i, j \in DOMAIN trace :
           i < j => ClaimedRank(trace[i].call) <= ClaimedRank(trace[j].call)
    /\ \A i \in DOMAIN trace :
           trace[i].call \in RegistrationCalls =>
               \E j \in Calls("open") : j < i

\* C15 amended: the calls of run come in the order directory creation, logging
\* setup, start record, crate registration, software registration, output
\* table, dataset registration, computation registration, finish record; the
\* crate and the software are registered before the table is opened, the
\* dataset and the computation only once the file is fully written and closed,
\* and the finish record is the last call.
C15_StepsInCodeOrder ==
    /\ \A i, j \in DOMAIN trace :
           i < j => CodeRank(trace[i].call) < CodeRank(trace[j].call)
    /\ Calls("open") # {} =>
           \E i \in Calls("register_software") : trace[i].ok
    /\ Calls("register_dataset") \cup Calls("register_computation") # {} =>
           /\ coembedding_file.exists
           /\ ~coembedding_file.open
           /\ gpc = "done"
           /\ coembedding_file.rows = emitted
    /\ RunEnded => trace[Len(trace)].call = "write_task_finish_json"

\* C15 witness: a run that made every one of its calls and wrote a row ended.
C15_Witness ==
    /\ RunEnded
    /\ {trace[i].call : i \in DOMAIN trace} =
           {"makedirs", "setup_filelogger", "write_task_start_json",
            "get_merged_rocrate_provenance_attrs", "register_rocrate",
            "register_software", "open", "get_next_embedding",
            "register_dataset", "register_computation",
            "write_task_finish_json"}
    /\ coembedding_file.rows # <<>>

\* C16: the training call of the real fitter has returned before the first
\* row is yielded: no row is yielded or written before the fit or when the fit
\* did not complete, and the held-out file, when one is asked for, is written
\* before the training call starts.
C16_FitReturnsBeforeFirstRow ==
    /\ emitted # <<>> \/ coembedding_file.rows # <<>> =>
           /\ kind = "muse"
           /\ fitCalled
           /\ gpc \in {"fitted", "done"}
           /\ Len(res_embedings) >= Len(emitted)
    /\ ~fitCalled \/ gerr = "TrainingError" =>
           emitted = <<>> /\ coembedding_file.rows = <<>>
    /\ fitCalled /\ _jackknife_percent > 0 => ~test_genes_file.isNone

\* C16 witness: with a held-out fraction asked for, the file of held-out
\* identifiers is there, the fit has returned and a row has been written.
C16_Witness ==
    /\ _jackknife_percent > 0
    /\ ~test_genes_file.isNone
    /\ fitCalled
    /\ coembedding_file.rows # <<>>

\* The vector of floats of one loaded table row.
RowVector(row) == [c \in 1..(Len(row) - 1) |-> PyFloat(row[c + 1])]

\* C17: the matrices handed to training are row-consistent with the aligned
\* index: every modality's matrix has as many rows as the index, and its row i
\* is the vector that modality's table gives for identifier i of the index;
\* for any number of modalities, and when a table repeats an identifier.
C17_AlignedMatricesRowConsistent ==
    Aligned /\ gpc # "created" =>
        \A m \in DOMAIN embeddings :
            /\ m \in DOMAIN embedding_data
            /\ Len(embedding_data[m]) = Len(name_index)
            /\ \A i \in DOMAIN name_index :
                   \E k \in DOMAIN embeddings[m] :
                       /\ embeddings[m][k][1] = name_index[i]
                       /\ RowVector(embeddings[m][k]) = embedding_data[m][i]

\* The place of each registration step in the order of the claim.
RegistrationRank(call) ==
    CASE call = "register_rocrate" -> 1
      [] call = "register_software" -> 2
      [] call = "register_dataset" -> 3
      [] call = "register_computation" -> 4

\* The registration calls of the run that failed.
FailedRegistrations ==
    {i \in DOMAIN trace : trace[i].call \in RegistrationCalls /\ ~trace[i].ok}

\* C18: each provenance registration step (crate, software, dataset,
\* computation) is invoked at most once per run and in that order; when one
\* fails no later registration is invoked and nothing is retried, the error
\* propagates out of run, and the finish record is still written, with the
\* nonzero status.
C18_RegistrationsOnceInOrderNoRetry ==
    /\ \A call \in RegistrationCalls : Cardinality(Calls(call)) <= 1
    /\ \A i, j \in DOMAIN trace :
           i < j /\ trace[i].call \in RegistrationCalls
                 /\ trace[j].call \in RegistrationCalls =>
               /\ RegistrationRank(trace[i].call) < RegistrationRank(trace[j].call)
               /\ trace[i].ok
    /\ \A i \in FailedRegistrations :
           /\ \A j \in DOMAIN trace : j > i => trace[j].call = "write_task_finish_json"
           /\ exitcode = 99
           /\ exc # "none"
           /\ FinallyEntered
           /\ RunEnded => /\ runResult = "raised"
                          /\ Cardinality(Calls("write_task_finish_json")) = 1

\* C18 witness: the software registration failed after the crate's succeeded,
\* and the run ended raising, its finish record written.
C18_Witness ==
    /\ RunEnded
    /\ \E i \in Calls("register_rocrate") : trace[i].ok
    /\ \E i \in Calls("register_software") : ~trace[i].ok
    /\ trace[Len(trace)] = Call("write_task_finish_json", TRUE)
    /\ runResult = "raised"

\* main has made its checks of the input selection, on these arguments.
MainValidated == mpc \notin {"idle", "start"}
MainDirWithFiles ==
    /\ margs.ppi_embeddingdir # None \/ margs.image_embeddingdir # None
    /\ Truthy(margs.embeddings)
MainOneDirOnly ==
    /\ (margs.ppi_embeddingdir = None) # (margs.image_embeddingdir = None)
    /\ ~Truthy(margs.embeddings)

\* The constructor has made its checks of the input selection, on these
\* arguments.
CtorOver == cpc # "new"
CtorDirWithFiles ==
    /\ args.ppi_embeddingdir # None \/ args.image_embeddingdir # None
    /\ Truthy(args.embedding_files)
CtorOneDirOnly ==
    /\ (args.ppi_embeddingdir = None) # (args.image_embeddingdir = None)
    /\ ~Truthy(args.embedding_files)

\* The errors the input-selection checks raise, in main and in the constructor.
SelectionErrors == {"UseEitherNotBoth", "OnlyTwoEmbeddings", "InputsRequired"}

\* A directory flag together with explicit files is rejected with the
\* configuration error, in main and in the constructor.
DirWithFilesRejected ==
    /\ MainValidated /\ MainDirWithFiles =>
           mpc = "ended" /\ mresult = MainPropagate("UseEitherNotBoth")
    /\ CtorOver /\ CtorDirWithFiles =>
           cpc = "raised" /\ ctorErr = "UseEitherNotBoth"

\* C19 as claimed: a directory flag together with explicit files is always
\* rejected with the configuration error, but exactly one directory flag and
\* no explicit files is not rejected with a configuration error by the
\* input-selection check, neither in main nor in the constructor.
C19_SingleDirectoryFlagNotRejected ==
    /\ DirWithFilesRejected
    /\ MainValidated /\ MainOneDirOnly => mresult.err \notin SelectionErrors
    /\ CtorOver /\ CtorOneDirOnly => ctorErr \notin SelectionErrors

\* C19 amended: a directory flag together with explicit files is always
\* rejected with the configuration error; exactly one directory flag and no
\* explicit files is rejected by main, with the error that inputs are
\* required, raised before the try block; the constructor's selection check
\* does not reject it, and the constructor then fails on the missing directory
\* (TypeError) or on a PPI directory without an embedding file.
C19_SingleDirectoryFlagRejectedByMain ==
    /\ DirWithFilesRejected
    /\ MainValidated /\ MainOneDirOnly =>
           mpc = "ended" /\ mresult = MainPropagate("InputsRequired")
    /\ CtorOver /\ CtorOneDirOnly =>
           /\ cpc = "raised"
           /\ ctorErr \in {"TypeError", "EmbeddingFileNotFound"}
           /\ ctorErr = "EmbeddingFileNotFound" =>
                  /\ args.ppi_embeddingdir # None
                  /\ ~GetEmbeddingFileFromDirs(args.ppi_embeddingdir,
                                               dirs[args.ppi_embeddingdir]).ok

\* C19 witness: main, given the image directory alone, has ended raising the
\* error that inputs are required.
C19_Witness ==
    /\ mpc = "ended"
    /\ margs.ppi_embeddingdir = None
    /\ margs.image_embeddingdir # None
    /\ ~Truthy(margs.embeddings)
    /\ mresult.how = "raised"
    /\ mresult.err = "InputsRequired"

====
